---- MODULE Spec2Model ----
(***************************************************************************)
(* Model of SpeechRecognitionManager (src/speech-recognition.js): the      *)
(* session controller (start / stop / onresult / onerror / onend / the     *)
(* periodic analytics timer), the fragment processor and the analytics     *)
(* snapshot computation.  Text is a sequence of one-character strings.     *)
(***************************************************************************)
EXTENDS Integers, Sequences, FiniteSets, TLC

\* ---------------------------------------------------------------- bounds
MaxFragments == 1        \* fragments processed per session (Spec)
MaxTextFragments == 2    \* fragments processed in SpecText
MaxResultsPerEvent == 2  \* results carried by one result event (SpecText)
MaxStarts == 2           \* start() calls that reach setInterval
MaxClockSteps == 1       \* clock advances after the epoch
Epoch == 1000            \* Date.now() at construction (any non-zero value)

\* ------------------------------------------------------- program constants
TimerIntervalMs == 2000   \* also the step of the modelled clock

\* --------------------------------------------------------------- characters
Lower == {"a","b","c","d","e","f","g","h","i","j","k","l","m",
          "n","o","p","q","r","s","t","u","v","w","x","y","z"}
Upper == {"U"}
WhiteSpace == {" "}

\* \w of a JavaScript regular expression, over the modelled alphabet
IsWordChar(c) == c \in Lower \cup Upper \cup {"_"}

\* String.prototype.toLowerCase on one character
LowerChar(c) == IF c = "U" THEN "u" ELSE c

ToLowerCase(str) == [i \in 1..Len(str) |-> LowerChar(str[i])]

\* ------------------------------------------------------------ configuration
fillerWords ==
    <<<<"u", "m">>,
       <<"u", "h">>,
       <<"l", "i", "k", "e">>,
       <<"y", "o", "u", " ", "k", "n", "o", "w">>,
       <<"a", "c", "t", "u", "a", "l", "l", "y">>,
       <<"b", "a", "s", "i", "c", "a", "l", "l", "y">>,
       <<"l", "i", "t", "e", "r", "a", "l", "l", "y">>,
       <<"s", "o", "r", "t", " ", "o", "f">>,
       <<"k", "i", "n", "d", " ", "o", "f">>>>

sentimentPositive ==
    <<<<"g", "r", "e", "a", "t">>,
       <<"a", "w", "e", "s", "o", "m", "e">>,
       <<"h", "a", "p", "p", "y">>,
       <<"e", "x", "c", "e", "l", "l", "e", "n", "t">>,
       <<"w", "o", "n", "d", "e", "r", "f", "u", "l">>,
       <<"l", "o", "v", "e">>,
       <<"f", "a", "n", "t", "a", "s", "t", "i", "c">>>>

sentimentNegative ==
    <<<<"b", "a", "d">>,
       <<"t", "e", "r", "r", "i", "b", "l", "e">>,
       <<"s", "a", "d">>,
       <<"a", "w", "f", "u", "l">>,
       <<"h", "a", "t", "e">>,
       <<"h", "o", "r", "r", "i", "b", "l", "e">>,
       <<"d", "i", "s", "a", "p", "p", "o", "i", "n", "t", "i", "n", "g">>>>

sentimentNeutral ==
    <<<<"o", "k", "a", "y">>,
       <<"f", "i", "n", "e">>,
       <<"n", "o", "r", "m", "a", "l">>,
       <<"u", "s", "u", "a", "l">>>>

\* Array.prototype.includes
Includes(list, w) == \E i \in 1..Len(list) : list[i] = w

\* ------------------------------------------------------- fragment alphabet
FragEmpty == <<>>  \* ""
FragBlank == <<" ">>  \* " "
FragUm == <<"u", "m">>  \* "um"
FragUhFine == <<"U", "h", ",", " ", "f", "i", "n", "e">>  \* "Uh, fine"
FragLoveBad == <<"l", "o", "v", "e", " ", "b", "a", "d">>  \* "love bad"
FragDash == <<"s", "o", " ", "-">>  \* "so -"
FragLeadBad == <<" ", "b", "a", "d", " ", "u", "m">>  \* " bad um"
Fragments == {FragEmpty, FragBlank, FragUm, FragUhFine, FragLoveBad, FragDash, FragLeadBad}

\* ------------------------------------------------------------ string helpers
IsSpace(c) == c \in WhiteSpace

RECURSIVE TrimStart(_)
TrimStart(str) ==
    IF str # <<>> /\ IsSpace(Head(str)) THEN TrimStart(Tail(str)) ELSE str

RECURSIVE TrimEnd(_)
TrimEnd(str) ==
    IF str # <<>> /\ IsSpace(str[Len(str)])
    THEN TrimEnd(SubSeq(str, 1, Len(str) - 1))
    ELSE str

\* String.prototype.trim
Trim(str) == TrimEnd(TrimStart(str))

\* String.prototype.split(/\s+/): cur is the token being read, acc the
\* tokens closed so far; a run of whitespace closes exactly one token, and
\* the token open at the end of the string is always emitted (so "" splits
\* into one empty token).
RECURSIVE SplitFrom(_, _, _, _)
SplitFrom(str, i, cur, acc) ==
    IF i > Len(str) THEN Append(acc, cur)
    ELSE IF IsSpace(str[i])
         THEN IF i > 1 /\ IsSpace(str[i - 1])
              THEN SplitFrom(str, i + 1, cur, acc)
              ELSE SplitFrom(str, i + 1, <<>>, Append(acc, cur))
         ELSE SplitFrom(str, i + 1, Append(cur, str[i]), acc)

SplitWhitespace(str) == SplitFrom(str, 1, <<>>, <<>>)

\* word.replace(/[^\w\s]|_/g, ""): drops every character that is neither a
\* word character nor whitespace, and drops the underscore
RECURSIVE CleanWord(_)
CleanWord(word) ==
    IF word = <<>> THEN <<>>
    ELSE IF (IsWordChar(Head(word)) \/ IsSpace(Head(word))) /\ Head(word) # "_"
         THEN <<Head(word)>> \o CleanWord(Tail(word))
         ELSE CleanWord(Tail(word))

\* \b at position i (between str[i-1] and str[i])
WordAt(str, i) == i >= 1 /\ i <= Len(str) /\ IsWordChar(str[i])
Boundary(str, i) == WordAt(str, i - 1) # WordAt(str, i)

\* does /\bpat\b/i match str starting at index i
MatchAt(str, pat, i) ==
    /\ i + Len(pat) - 1 <= Len(str)
    /\ \A k \in 1..Len(pat) : LowerChar(str[i + k - 1]) = LowerChar(pat[k])
    /\ Boundary(str, i)
    /\ Boundary(str, i + Len(pat))

\* transcript.match(new RegExp('\\b' + fillerWord + '\\b', 'gi')).length,
\* 0 when match returns null
RECURSIVE CountMatchesFrom(_, _, _)
CountMatchesFrom(str, pat, i) ==
    IF i > Len(str) THEN 0
    ELSE IF MatchAt(str, pat, i)
         THEN 1 + CountMatchesFrom(str, pat, i + Len(pat))
         ELSE CountMatchesFrom(str, pat, i + 1)

CountMatches(str, pat) == CountMatchesFrom(str, pat, 1)

RECURSIVE FillerMatches(_, _)
FillerMatches(str, k) ==
    IF k > Len(fillerWords) THEN 0
    ELSE CountMatches(str, fillerWords[k]) + FillerMatches(str, k + 1)

\* -------------------------------------------------------- fragment processor
NoScores == [positive |-> 0, negative |-> 0, neutral |-> 0]

\* the if / else-if chain over sentimentDictionary: first matching category
BumpEmotion(scores, cleanWord) ==
    IF Includes(sentimentPositive, cleanWord)
    THEN [scores EXCEPT !.positive = @ + 1]
    ELSE IF Includes(sentimentNegative, cleanWord)
         THEN [scores EXCEPT !.negative = @ + 1]
         ELSE IF Includes(sentimentNeutral, cleanWord)
              THEN [scores EXCEPT !.neutral = @ + 1]
              ELSE scores

\* words.forEach(...) from index k on, over the counters in st
RECURSIVE ForEachWord(_, _, _)
ForEachWord(words, k, st) ==
    IF k > Len(words) THEN st
    ELSE LET cleanWord == CleanWord(words[k])
         IN  ForEachWord(words, k + 1,
                 IF Len(cleanWord) > 0
                 THEN [st EXCEPT !.uniqueWords = @ \cup {cleanWord},
                                 !.emotionScores = BumpEmotion(@, cleanWord)]
                 ELSE st)

\* the token list of _processTranscript
WordsOf(transcript) == SplitWhitespace(ToLowerCase(Trim(transcript)))

\* a word count that does not look at isInterim
CountsWordsAlways(isInterim) == TRUE

\* a word count with the test of line 86 inverted
CountsWordsInverted(isInterim) == isInterim

\* line 86
CountsWords(isInterim) == ~isInterim

\* line 106
ScansFillers(isInterim) == ~isInterim

\* _processTranscript(transcript, isInterim) on the counters in st
ProcessTranscript(st, transcript, isInterim) ==
    LET words   == WordsOf(transcript)
        counted == IF CountsWords(isInterim)
                   THEN [st EXCEPT !.wordCount = @ + Len(words)]
                   ELSE st
        walked  == ForEachWord(words, 1, counted)
    IN  IF ScansFillers(isInterim)
        THEN [walked EXCEPT !.fillerWordCount = @ + FillerMatches(transcript, 1)]
        ELSE walked

\* the for loop of onresult from result k on: acc carries the counters and
\* the local finalTranscript / interimTranscript strings
RECURSIVE ForEachResult(_, _, _)
ForEachResult(results, k, acc) ==
    IF k > Len(results) THEN acc
    ELSE LET r  == results[k]
             st == ProcessTranscript(acc.st, r.transcript, ~r.isFinal)
         IN  ForEachResult(results, k + 1,
                 IF r.isFinal
                 THEN [acc EXCEPT !.st = st,
                                  !.finalTranscript = @ \o r.transcript]
                 ELSE [acc EXCEPT !.st = st,
                                  !.interimTranscript = @ \o r.transcript])

\* ------------------------------------------------------------------ numbers
\* Math.round(n / d) for n >= 0, d > 0 (halves round up)
RoundDiv(n, d) == (2 * n + d) \div (2 * d)

\* (n / d).toFixed(2), as an integer number of hundredths
ToFixed2(n, d) == RoundDiv(100 * n, d)

\* -------------------------------------------------------------------- state
VARIABLES
    recognition,        \* TRUE iff the constructor created this.recognition
    srcState,           \* the recognizer: "inactive", "active", "stopping"
                        \* (stop() called, end pending) or "errored" (error
                        \* fired, end pending)
    isRecording,
    transcriptText,
    startTime,          \* 0 stands for null
    wordCount,
    fillerWordCount,
    uniqueWords,
    emotionScores,
    onTranscriptUpdate, \* TRUE iff a callback is registered
    onAnalyticsUpdate,  \* TRUE iff a callback is registered
    analyticsTimer,     \* id of the last interval created, 0 stands for null
    timers,             \* the intervals not yet cleared: [id, due]
    nextTimerId,
    now,                \* Date.now()
    \* what the last step did, as its caller and the callbacks saw it
    lastOp,
    srcAsked,           \* "start" / "stop" / "none": the call made on the source
    srcThrew,           \* that call threw
    threw,              \* an exception escaped the operation
    delivered,          \* the onAnalyticsUpdate calls made, in order
    transcriptUpdates,  \* the onTranscriptUpdate calls made, in order
    \* history
    finalCount,         \* isFinal=true calls since the last start()
    fragmentsSeen,      \* results processed since the counters were reset
    expectedWords,      \* whitespace-delimited tokens of the final fragments
                        \* processed since the counters were reset
    fragmentLog,        \* the results processed since the counters were
                        \* reset, in order: [transcript, isFinal]
    sinceError,         \* an error was reported and start() not called since
    anyCallback         \* some callback has been invoked

fields == <<isRecording, transcriptText, startTime, wordCount,
            fillerWordCount, uniqueWords, emotionScores>>
callbacks == <<onTranscriptUpdate, onAnalyticsUpdate>>
timerVars == <<analyticsTimer, timers, nextTimerId>>
observed == <<lastOp, srcAsked, srcThrew, threw, delivered, transcriptUpdates>>
history == <<finalCount, fragmentsSeen, expectedWords, fragmentLog, sinceError,
             anyCallback>>
vars == <<recognition, srcState, fields, callbacks, timerVars, now,
          observed, history>>

\* the counters _processTranscript and _updateAnalytics work on
Counters == [wordCount |-> wordCount, fillerWordCount |-> fillerWordCount,
             uniqueWords |-> uniqueWords, emotionScores |-> emotionScores]

\* ------------------------------------------------------------- constructor
\* Lines 19-37 run only when the platform has a recognizer; otherwise the
\* constructor returns at line 11 and none of the properties exists (the
\* variables then hold placeholders that no operation reads: see Prop).
Init ==
    /\ recognition \in BOOLEAN
    /\ srcState = "inactive"
    /\ isRecording = FALSE
    /\ transcriptText = <<>>
    /\ startTime = 0
    /\ wordCount = 0
    /\ fillerWordCount = 0
    /\ uniqueWords = {}
    /\ emotionScores = NoScores
    /\ onTranscriptUpdate = FALSE
    /\ onAnalyticsUpdate = FALSE
    /\ analyticsTimer = 0
    /\ timers = {}
    /\ nextTimerId = 1
    /\ now = Epoch
    /\ lastOp = "constructor"
    /\ srcAsked = "none"
    /\ srcThrew = FALSE
    /\ threw = FALSE
    /\ delivered = <<>>
    /\ transcriptUpdates = <<>>
    /\ finalCount = 0
    /\ fragmentsSeen = 0
    /\ expectedWords = 0
    /\ fragmentLog = <<>>
    /\ sinceError = FALSE
    /\ anyCallback = FALSE

\* reading this.<property>: undefined when the constructor never assigned it
Undefined == [type |-> "undefined"]
Prop(type, value) ==
    IF recognition THEN [type |-> type, value |-> value] ELSE Undefined

getTranscript == Prop("string", transcriptText)
isListening == Prop("boolean", isRecording)

\* ------------------------------------------------------ analytics snapshot
\* a total that leaves the neutral counter out
TotalEmotionNoNeutral(scores) == scores.positive + scores.negative

\* line 125
TotalEmotion(scores) == scores.positive + scores.negative + scores.neutral

\* the object built by _updateAnalytics from counters st at clock reading t;
\* the 2-decimal strings are integers in hundredths (the literal default
\* tone {0, 0, 1} is 0, 0, 100)
Analytics(st, t) ==
    LET durationMs == t - startTime
        wpm == IF durationMs > 0
               THEN RoundDiv(st.wordCount * 60000, durationMs)
               ELSE 0
        totalEmotion == TotalEmotion(st.emotionScores)
    IN  [speakingPace |-> wpm,
         fillerWordCount |-> st.fillerWordCount,
         vocabularyDiversity |->
             IF st.wordCount > 0
             THEN ToFixed2(Cardinality(st.uniqueWords), st.wordCount)
             ELSE 0,
         emotionalTone |->
             IF totalEmotion > 0
             THEN [positive |-> ToFixed2(st.emotionScores.positive, totalEmotion),
                   negative |-> ToFixed2(st.emotionScores.negative, totalEmotion),
                   neutral  |-> ToFixed2(st.emotionScores.neutral, totalEmotion)]
             ELSE [positive |-> 0, negative |-> 0, neutral |-> 100],
         duration |-> RoundDiv(durationMs, 1000)]

\* a snapshot computation without the test of line 118
NoSessionIgnored == FALSE

\* line 118: `if (!this.startTime) return`
NoSession == startTime = 0

\* _updateAnalytics(isFinal): the callback calls it makes
UpdateAnalytics(isFinal, st) ==
    IF NoSession THEN <<>>
    ELSE IF onAnalyticsUpdate
         THEN <<[analytics |-> Analytics(st, now), isFinal |-> isFinal]>>
         ELSE <<>>

\* ---------------------------------------------------------------- bookkeeping
Finals(calls) == Cardinality({i \in 1..Len(calls) : calls[i].isFinal})

\* finalCount distinguishes none, one, and two or more
Saturate(n) == IF n > 2 THEN 2 ELSE n

Observe(op, ask, srcT, esc, calls, tcalls) ==
    /\ lastOp' = op
    /\ srcAsked' = ask
    /\ srcThrew' = srcT
    /\ threw' = esc
    /\ delivered' = calls
    /\ transcriptUpdates' = tcalls
    /\ anyCallback' = (anyCallback \/ calls # <<>> \/ tcalls # <<>>)

\* a step that calls neither the recognizer nor a callback
Idle == Observe("none", "none", FALSE, FALSE, <<>>, <<>>)

\* clearInterval(this.analyticsTimer)
ClearInterval(ts) == {t \in ts : t.id # analyticsTimer}

\* ------------------------------------------------------------- the recognizer
\* recognition.start() throws InvalidStateError while the recognizer is
\* started (no end event yet); fails is any other failure to start
SourceStartThrows(fails) == srcState # "inactive" \/ fails

\* the recognizer after an accepted stop()
AfterSourceStop(src) == IF src = "active" THEN "stopping" ELSE src

\* an operation on a platform without a recognizer: `if (!this.recognition) return`
NoOp(op) ==
    /\ ~recognition
    /\ Observe(op, "none", FALSE, FALSE, <<>>, <<>>)
    /\ UNCHANGED <<recognition, srcState, fields, callbacks, timerVars, now>>
    /\ UNCHANGED <<finalCount, fragmentsSeen, expectedWords, fragmentLog, sinceError>>

\* ------------------------------------------------------------------ start()
\* line 149, executed before the recognizer is asked to start
StartFlag == TRUE

\* recognition.start() threw at line 150: control goes to the catch block
StartThrown ==
    /\ isRecording' = StartFlag
    /\ UNCHANGED <<srcState, transcriptText, startTime, wordCount,
                   fillerWordCount, uniqueWords, emotionScores, timerVars>>
    /\ UNCHANGED <<fragmentsSeen, expectedWords, fragmentLog>>
    /\ Observe("start", "start", TRUE, FALSE, <<>>, <<>>)

\* lines 149-165 ran to the end
StartDone ==
    /\ nextTimerId <= MaxStarts
    /\ isRecording' = StartFlag
    /\ srcState' = "active"
    /\ startTime' = now
    /\ wordCount' = 0
    /\ fillerWordCount' = 0
    /\ uniqueWords' = {}
    /\ emotionScores' = NoScores
    /\ transcriptText' = <<>>
    /\ analyticsTimer' = nextTimerId
    /\ timers' = timers \cup {[id |-> nextTimerId, due |-> now + TimerIntervalMs]}
    /\ nextTimerId' = nextTimerId + 1
    /\ fragmentsSeen' = 0
    /\ expectedWords' = 0
    /\ fragmentLog' = <<>>
    /\ Observe("start", "start", FALSE, FALSE, <<>>, <<>>)

Start ==
    \/ NoOp("start")
    \/ /\ recognition
       /\ \E fails \in BOOLEAN :
             IF SourceStartThrows(fails) THEN StartThrown ELSE StartDone
       /\ finalCount' = 0
       /\ sinceError' = FALSE
       /\ UNCHANGED <<recognition, callbacks, now>>

\* ------------------------------------------------------------------- stop()
\* a stop() that leaves the flag as it found it
StopFlagKept == isRecording

\* line 176, executed before the recognizer is asked to stop
StopFlag == FALSE

\* line 183: the final snapshot is requested only for a positive duration
StopFinalizes == startTime # 0 /\ now - startTime > 0

\* the try block of stop(), entered with the recognizer in state src;
\* fails: recognition.stop() throws at line 177
StopBody(op, src, fails) ==
    /\ isRecording' = StopFlag
    /\ UNCHANGED <<transcriptText, startTime, wordCount, fillerWordCount,
                   uniqueWords, emotionScores, analyticsTimer, nextTimerId>>
    /\ UNCHANGED <<recognition, callbacks, now, fragmentsSeen, expectedWords,
                   fragmentLog>>
    /\ IF fails
       THEN /\ srcState' = src
            /\ timers' = timers
            /\ finalCount' = finalCount
            /\ Observe(op, "stop", TRUE, FALSE, <<>>, <<>>)
       ELSE LET calls == IF StopFinalizes
                         THEN UpdateAnalytics(TRUE, Counters)
                         ELSE <<>>
            IN  /\ srcState' = AfterSourceStop(src)
                /\ timers' = ClearInterval(timers)
                /\ finalCount' = Saturate(finalCount + Finals(calls))
                /\ Observe(op, "stop", FALSE, FALSE, calls, <<>>)

Stop ==
    \/ NoOp("stop")
    \/ /\ recognition
       /\ \E fails \in BOOLEAN : StopBody("stop", srcState, fails)
       /\ UNCHANGED sinceError

\* ------------------------------------------------------- recognition.onerror
OnError ==
    /\ recognition
    /\ srcState \in {"active", "stopping"}
    /\ \E fails \in BOOLEAN : StopBody("onerror", "errored", fails)
    /\ sinceError' = TRUE

\* --------------------------------------------------------- recognition.onend
\* the test of line 74 inverted
OnEndRestartsInverted == ~isRecording

\* line 74
OnEndRestarts == isRecording

OnEnd ==
    /\ recognition
    /\ srcState \in {"active", "stopping", "errored"}
    /\ UNCHANGED <<recognition, fields, callbacks, analyticsTimer, nextTimerId, now>>
    /\ UNCHANGED <<fragmentsSeen, expectedWords, fragmentLog, sinceError>>
    /\ IF OnEndRestarts
       THEN \E fails \in BOOLEAN :
               /\ srcState' = IF fails THEN "inactive" ELSE "active"
               /\ timers' = timers
               /\ finalCount' = finalCount
               /\ Observe("onend", "start", fails, fails, <<>>, <<>>)
       ELSE LET calls == UpdateAnalytics(TRUE, Counters)
            IN  /\ srcState' = "inactive"
                /\ timers' = ClearInterval(timers)
                /\ finalCount' = Saturate(finalCount + Finals(calls))
                /\ Observe("onend", "none", FALSE, FALSE, calls, <<>>)

\* ------------------------------------------------------ recognition.onresult
\* the results of one event, from event.resultIndex on
Results ==
    [transcript : Fragments, isFinal : BOOLEAN]

Events ==
    UNION {[1..n -> Results] : n \in 1..MaxResultsPerEvent}

\* the events the session-controller specification draws from: one result
\* with a two-word text, final or interim
CtlEvents ==
    {e \in [1..1 -> Results] : e[1].transcript = FragUhFine}

\* the reference count for wordCount: the number of maximal runs of
\* non-whitespace characters in a text
TokenCount(str) ==
    Cardinality({i \in 1..Len(str) :
        ~IsSpace(str[i]) /\ (i = 1 \/ IsSpace(str[i - 1]))})

RECURSIVE FinalTokens(_, _)
FinalTokens(results, k) ==
    IF k > Len(results) THEN 0
    ELSE (IF results[k].isFinal THEN TokenCount(results[k].transcript) ELSE 0)
         + FinalTokens(results, k + 1)

OnResultOf(events, maxFragments) ==
    /\ recognition
    /\ srcState \in {"active", "stopping"}
    /\ \E results \in events :
          /\ fragmentsSeen + Len(results) <= maxFragments
          /\ LET acc == ForEachResult(results, 1,
                            [st |-> Counters, finalTranscript |-> <<>>,
                             interimTranscript |-> <<>>])
                 text == Trim(transcriptText \o <<" ">> \o acc.finalTranscript)
                 tcalls == IF onTranscriptUpdate
                           THEN <<[transcript |-> text,
                                   interim |-> acc.interimTranscript]>>
                           ELSE <<>>
                 calls == UpdateAnalytics(FALSE, acc.st)
             IN  /\ transcriptText' = text
                 /\ wordCount' = acc.st.wordCount
                 /\ fillerWordCount' = acc.st.fillerWordCount
                 /\ uniqueWords' = acc.st.uniqueWords
                 /\ emotionScores' = acc.st.emotionScores
                 /\ fragmentsSeen' = fragmentsSeen + Len(results)
                 /\ expectedWords' = expectedWords + FinalTokens(results, 1)
                 /\ fragmentLog' = fragmentLog \o results
                 /\ Observe("onresult", "none", FALSE, FALSE, calls, tcalls)
    /\ UNCHANGED <<recognition, srcState, isRecording, startTime, callbacks,
                   timerVars, now, finalCount, sinceError>>

OnResult == OnResultOf(CtlEvents, MaxFragments)

\* ------------------------------------------------- the setInterval callback
TimerTick ==
    /\ \E t \in timers :
          /\ now >= t.due
          /\ timers' = (timers \ {t})
                       \cup {[t EXCEPT !.due = @ + TimerIntervalMs]}
    /\ Observe("tick", "none", FALSE, FALSE, UpdateAnalytics(FALSE, Counters), <<>>)
    /\ UNCHANGED <<recognition, srcState, fields, callbacks, analyticsTimer,
                   nextTimerId, now>>
    /\ UNCHANGED <<finalCount, fragmentsSeen, expectedWords, fragmentLog, sinceError>>

\* -------------------------------------------------------------------- setters
SetTranscriptUpdateCallback ==
    /\ onTranscriptUpdate' = TRUE
    /\ Idle
    /\ UNCHANGED <<recognition, srcState, fields, onAnalyticsUpdate, timerVars, now>>
    /\ UNCHANGED <<finalCount, fragmentsSeen, expectedWords, fragmentLog, sinceError>>

SetAnalyticsUpdateCallback ==
    /\ onAnalyticsUpdate' = TRUE
    /\ Idle
    /\ UNCHANGED <<recognition, srcState, fields, onTranscriptUpdate, timerVars, now>>
    /\ UNCHANGED <<finalCount, fragmentsSeen, expectedWords, fragmentLog, sinceError>>

\* ---------------------------------------------------------------------- clock
Advance ==
    /\ now + TimerIntervalMs <= Epoch + MaxClockSteps * TimerIntervalMs
    /\ now' = now + TimerIntervalMs
    /\ Idle
    /\ UNCHANGED <<recognition, srcState, fields, callbacks, timerVars>>
    /\ UNCHANGED <<finalCount, fragmentsSeen, expectedWords, fragmentLog, sinceError>>

Next ==
    \/ Start
    \/ Stop
    \/ OnError
    \/ OnEnd
    \/ OnResult
    \/ TimerTick
    \/ SetTranscriptUpdateCallback
    \/ SetAnalyticsUpdateCallback
    \/ Advance

Spec == Init /\ [][Next]_vars

\* ------------------------------------------- the fragment-processing runs
\* One session, from the state reached by setTranscriptUpdateCallback(cb),
\* setAnalyticsUpdateCallback(cb) and a start() the recognizer accepted at
\* the epoch; result events carry any of the texts of Fragments.
InitText ==
    /\ recognition = TRUE
    /\ srcState = "active"
    /\ isRecording = TRUE
    /\ transcriptText = <<>>
    /\ startTime = Epoch
    /\ wordCount = 0
    /\ fillerWordCount = 0
    /\ uniqueWords = {}
    /\ emotionScores = NoScores
    /\ onTranscriptUpdate = TRUE
    /\ onAnalyticsUpdate = TRUE
    /\ analyticsTimer = 1
    /\ timers = {[id |-> 1, due |-> Epoch + TimerIntervalMs]}
    /\ nextTimerId = 2
    /\ now = Epoch
    /\ lastOp = "start"
    /\ srcAsked = "start"
    /\ srcThrew = FALSE
    /\ threw = FALSE
    /\ delivered = <<>>
    /\ transcriptUpdates = <<>>
    /\ finalCount = 0
    /\ fragmentsSeen = 0
    /\ expectedWords = 0
    /\ fragmentLog = <<>>
    /\ sinceError = FALSE
    /\ anyCallback = FALSE

OnResultText == OnResultOf(Events, MaxTextFragments)

NextText ==
    \/ OnResultText
    \/ TimerTick
    \/ Advance

SpecText == InitText /\ [][NextText]_vars

\* ===================================================================== claims
True == [type |-> "boolean", value |-> TRUE]
False == [type |-> "boolean", value |-> FALSE]
EmptyString == [type |-> "string", value |-> <<>>]

\* C1: between one start() and the next, the analytics callback is invoked
\* with isFinal=true exactly once; here the "no more than once" half, over
\* every sequence of stop(), error and end-of-stream that follows the start().
C1_FinalExactlyOnce == finalCount <= 1

\* C2: every stop() made with startTime set (and a callback registered)
\* delivers a final snapshot during the call, whatever the elapsed duration;
\* at zero duration its speakingPace is 0.
C2_StopDeliversFinal ==
    [][(Stop /\ recognition /\ startTime # 0 /\ onAnalyticsUpdate)
        => /\ Finals(delivered') = 1
           /\ now = startTime =>
                  \A i \in 1..Len(delivered') :
                      delivered'[i].analytics.speakingPace = 0]_vars

\* C3: whenever isListening() goes from false to true on a supported
\* platform, the counters, the unique words and the transcript are
\* zero/empty and startTime is the time of that transition.
C3_ResetOnRecording ==
    [][(recognition /\ isListening = False /\ isListening' = True)
        => /\ wordCount' = 0
           /\ fillerWordCount' = 0
           /\ emotionScores' = NoScores
           /\ uniqueWords' = {}
           /\ transcriptText' = <<>>
           /\ startTime' = now']_vars

\* C4: a start() during which the recognizer throws, made while
\* isListening() is false, leaves isListening() false and startTime, the
\* counters, the transcript and the timer as they were.
C4_ThrowingStartKeepsState ==
    [][(Start /\ srcThrew' /\ isListening = False)
        => /\ isListening' = False
           /\ UNCHANGED <<startTime, wordCount, fillerWordCount, uniqueWords,
                          emotionScores, transcriptText, timerVars>>]_vars

\* C5: no exception escapes start(), stop(), the error handler or the
\* end-of-stream handler when the recognizer's start or stop throws.
C5_NoExceptionEscapes == ~threw

\* C6: from a reported error until the next start(), isListening() is false
\* and an end-of-stream signal does not ask the recognizer to start.
C6_ErrorNeverResumes ==
    sinceError =>
        /\ isListening = False
        /\ lastOp = "onend" => srcAsked = "none"

C6_Witness ==
    /\ sinceError
    /\ lastOp = "onend"
    /\ srcState = "inactive"
    /\ startTime # 0

\* C7: an end-of-stream signal received while Recording asks the recognizer
\* to start, leaves the counters, the unique words, the transcript,
\* startTime, isRecording and the timer unchanged, and delivers no snapshot.
C7_RestartKeepsSession ==
    [][(OnEnd /\ isRecording)
        => /\ srcAsked' = "start"
           /\ UNCHANGED <<fields, timerVars>>
           /\ delivered' = <<>>
           /\ transcriptUpdates' = <<>>]_vars

C7_Witness ==
    /\ lastOp = "onend"
    /\ srcAsked = "start"
    /\ isRecording
    /\ wordCount > 0
    /\ uniqueWords # {}
    /\ startTime # 0
    /\ startTime < now
    /\ onAnalyticsUpdate
    /\ \E t \in timers : t.id = analyticsTimer

\* C8: on a platform without a recognizer, after any sequence of start() and
\* stop(), getTranscript() is the empty string, isListening() is false and
\* no callback has been invoked.
C8_UnsupportedAccessors ==
    ~recognition =>
        /\ getTranscript = EmptyString
        /\ isListening = False
        /\ ~anyCallback

\* C9: wordCount equals the sum, over the final fragments of the session, of
\* the number of whitespace-delimited tokens of the fragment's raw text (an
\* empty or whitespace-only fragment contributing 0).
C9_WordCountIsTokenSum == wordCount = expectedWords

\* C10: in every delivered snapshot vocabularyDiversity is within [0, 1]
\* when wordCount > 0 and exactly 0 when wordCount = 0.
C10_DiversityInUnitInterval ==
    \A i \in 1..Len(delivered) :
        LET vd == delivered[i].analytics.vocabularyDiversity
        IN  IF wordCount > 0 THEN vd >= 0 /\ vd <= 100 ELSE vd = 0

\* the texts of the final results of a log, in order
RECURSIVE FinalTexts(_)
FinalTexts(log) ==
    IF log = <<>> THEN <<>>
    ELSE (IF Head(log).isFinal THEN <<Head(log).transcript>> ELSE <<>>)
         \o FinalTexts(Tail(log))

\* texts joined with single spaces
RECURSIVE JoinSpaces(_)
JoinSpaces(texts) ==
    IF texts = <<>> THEN <<>>
    ELSE IF Len(texts) = 1 THEN texts[1]
         ELSE texts[1] \o <<" ">> \o JoinSpaces(Tail(texts))

\* C11: getTranscript() is the session's final fragments, in the order the
\* source emitted them, joined with single spaces and trimmed, also when
\* one result event carries more than one final fragment.
C11_TranscriptIsJoinedFinals ==
    getTranscript =
        [type |-> "string", value |-> Trim(JoinSpaces(FinalTexts(fragmentLog)))]

\* C12: a result event that carries only interim fragments (every result it
\* appends to the log is interim) leaves transcriptText, wordCount and
\* fillerWordCount (and isRecording, startTime and the timer) unchanged.
C12_InterimKeepsTranscript ==
    [][(/\ lastOp' = "onresult"
        /\ Len(fragmentLog') > Len(fragmentLog)
        /\ \A i \in (Len(fragmentLog) + 1)..Len(fragmentLog') :
               ~fragmentLog'[i].isFinal)
        => UNCHANGED <<transcriptText, wordCount, fillerWordCount,
                       isRecording, startTime, timerVars>>]_vars

\* only interim results so far, and they left their words behind
C12_Witness ==
    /\ lastOp = "onresult"
    /\ fragmentLog # <<>>
    /\ \A i \in 1..Len(fragmentLog) : ~fragmentLog[i].isFinal
    /\ uniqueWords # {}
    /\ emotionScores # NoScores
    /\ wordCount = 0
    /\ transcriptText = <<>>

\* no interim result since the counters were reset
OnlyFinals == \A i \in 1..Len(fragmentLog) : fragmentLog[i].isFinal

\* the whitespace-delimited tokens of a text
TokensOf(text) == SelectSeq(SplitWhitespace(text), LAMBDA w : w # <<>>)

RECURSIVE TokensOfAll(_)
TokensOfAll(texts) ==
    IF texts = <<>> THEN <<>>
    ELSE TokensOf(Head(texts)) \o TokensOfAll(Tail(texts))

\* no two tokens are the same word, letter case and punctuation aside
NoDuplicateWords(tokens) ==
    \A i, j \in 1..Len(tokens) :
        i # j => CleanWord(ToLowerCase(tokens[i])) # CleanWord(ToLowerCase(tokens[j]))

\* C13: in a session of final fragments only in which no word occurs twice,
\* uniqueWords.size = wordCount after every fragment, tokens that carry or
\* consist of punctuation included.
C13_UniqueEqualsCount ==
    (OnlyFinals /\ NoDuplicateWords(TokensOfAll(FinalTexts(fragmentLog))))
        => Cardinality(uniqueWords) = wordCount

\* C14: while startTime is unset (no start() has been accepted yet), no
\* operation delivers a snapshot, and the snapshot computation, final or
\* not, makes no callback call.
C14_NoSnapshotBeforeStart ==
    startTime = 0 =>
        /\ delivered = <<>>
        /\ UpdateAnalytics(TRUE, Counters) = <<>>
        /\ UpdateAnalytics(FALSE, Counters) = <<>>

\* stop() called, with a callback registered, before any accepted start()
C14_Witness ==
    /\ recognition
    /\ startTime = 0
    /\ lastOp = "stop"
    /\ ~srcThrew
    /\ onAnalyticsUpdate
    /\ now > Epoch

\* C15: in every delivered snapshot emotionalTone is exactly
\* {positive: 0, negative: 0, neutral: 1} when the three counters sum to 0,
\* and otherwise its three 2-decimal shares sum to between 0.99 and 1.01.
C15_ToneSharesSumToOne ==
    \A i \in 1..Len(delivered) :
        LET tone == delivered[i].analytics.emotionalTone
            sum  == tone.positive + tone.negative + tone.neutral
        IN  IF emotionScores.positive + emotionScores.negative
               + emotionScores.neutral = 0
            THEN tone = [positive |-> 0, negative |-> 0, neutral |-> 100]
            ELSE sum >= 99 /\ sum <= 101

\* a snapshot whose three shares are 0.33 each
C15_Witness ==
    /\ delivered # <<>>
    /\ emotionScores = [positive |-> 1, negative |-> 1, neutral |-> 1]
    /\ delivered[1].analytics.emotionalTone
           = [positive |-> 33, negative |-> 33, neutral |-> 33]

\* C16: whenever the controller is Idle no periodic timer is live: stop(),
\* a source error, and a stop() during which stopping the recognizer throws
\* all cancel it.
C16_IdleHasNoTimer == ~isRecording => timers = {}

\* C17: at most one periodic timer is live, and exactly one whenever the
\* controller is Recording.
C17_OneTimerWhileRecording ==
    /\ Cardinality(timers) <= 1
    /\ isRecording => Cardinality(timers) = 1

\* C18: startTime is null whenever the controller is Idle and non-null
\* whenever it is Recording.
C18_StartTimeTracksRecording ==
    recognition => (isRecording <=> startTime # 0)

\* C19: once a final snapshot has been delivered, no snapshot with
\* isFinal=false is delivered until the next start().
C19_NothingAfterFinal ==
    finalCount > 0 =>
        \A i \in 1..Len(delivered) : delivered[i].isFinal

\* C20: in a session that has received final fragments only,
\* uniqueWords.size <= wordCount after every fragment, and no delivered
\* snapshot reports a vocabularyDiversity above 1.
C20_FinalsBoundDiversity ==
    OnlyFinals =>
        /\ Cardinality(uniqueWords) <= wordCount
        /\ \A i \in 1..Len(delivered) :
               delivered[i].analytics.vocabularyDiversity <= 100

\* two final fragments, a repeated or punctuation-only token among them
C20_Witness ==
    /\ OnlyFinals
    /\ Len(fragmentLog) >= 2
    /\ lastOp = "onresult"
    /\ delivered # <<>>
    /\ uniqueWords # {}
    /\ Cardinality(uniqueWords) < wordCount

TypeOK ==
    /\ recognition \in BOOLEAN
    /\ isRecording \in BOOLEAN
    /\ srcState \in {"inactive", "active", "stopping", "errored"}
    /\ wordCount \in Nat
    /\ startTime \in Nat
====
